---- MODULE Spec2Model ----
(***************************************************************************)
(* A model of the LKQL -> LuaJIT code-generation backend: the IR           *)
(* (src/src/lkqlc/ir.rs), the compilation environment                      *)
(* (src/src/lkqlc/env.rs) and the translation glue (src/src/lkqlc.rs,      *)
(* src/src/lkqlc/nodes/*.rs).                                              *)
(*                                                                         *)
(* Conventions                                                             *)
(*  - a Rust Vec is a TLA+ sequence: Vec index k is sequence index k + 1,  *)
(*    so first() is s[1], push appends, pop removes s[Len(s)];             *)
(*  - a Rust String is a sequence of one-character strings;                *)
(*  - Option<u8>::None is NoSlot (-1);                                     *)
(*  - [bool; 256] is the set of the indices that hold true;                *)
(*  - a HashMap is a function whose DOMAIN is the set of its keys;         *)
(*  - a panic is reported in the "panic" field of an operation's result    *)
(*    and ends the run (status = "panic");                                 *)
(*  - u8 arithmetic that overflows panics in a build with overflow checks  *)
(*    ("debug") and wraps in a build without ("release"); the mode is an   *)
(*    input of the operations that can overflow.                           *)
(***************************************************************************)
EXTENDS Integers, Sequences, FiniteSets, TLC

\* ------------------------------------------------------------------ bounds

\* local environments that may be on the stack at once
MaxEnvs == 3
\* IR instructions added to one local environment by add_instruction
MaxIr == 2
\* add_local calls in one local environment (main specification)
MaxLocals == 1
\* slots that one run of the slot or locals specification may hold at once
MaxHeld == 2
\* pseudo environments (blocks) that may be open at once
MaxBlocks == 2
\* Vecs returned by new_tmps that may be held at once
MaxRuns == 1
\* largest n given to new_tmps
MaxN == 2
\* add_string_constant calls in one run of the interning specification
MaxIntern == 4
\* the bitmaps of the bitmap specification have the last slot free and
\* any subset of the MaxTail slots before it; the slots below are occupied
MaxTail == 6
\* children of a top level list
MaxChildren == 3
\* largest arg_count given to open_env in the function specification
MaxArgs == 1
\* longest instruction list given to process_jumps
MaxJumpIr == 3
\* most instructions and most upvalue references of an encoded prototype
MaxCode == 32
MaxUpvalues == 256

\* ------------------------------------------------------- program constants

NumSlots == 256
SpillThreshold == 220
JUMP_BIASING == 32768
FLAG_P_HAS_CHILD == 1
MAGIC == <<27, 76, 74>>
CUR_VERSION == 2
FLAG_H_IS_STRIPPED == 2
FLAG_H_HAS_FFI == 4
BCDUMP_KGC_STR == 5
MOV == 18
KSTR == 39
KPRI == 43
UGET == 45
GGET == 54
CALL == 66
RET0 == 75
RET1 == 76
JMP == 88

\* Option<u8>::None
NoSlot == -1

OverflowModes == {"debug", "release"}

Min(S) == CHOOSE x \in S : \A y \in S : x <= y

\* ------------------------------------------------------------ maps, names

EmptyMap == [k \in {} |-> 0]

MapPut(m, k, v) == [x \in (DOMAIN m) \cup {k} |-> IF x = k THEN v ELSE m[x]]

NameX == <<"x">>
NameY == <<"y">>
NamePrint == <<"p", "r", "i", "n", "t">>
NameFoo == <<"f", "o", "o">>

\* const BUILD_IN_FUNC
BUILD_IN_FUNC == {NamePrint}

Underscores(depth) == [i \in 1..depth |-> "_"]

name_with_depth(name, depth) == Underscores(depth) \o name

\* LocalResult and UpvalueResult
ResSlot(slot) == [kind |-> "Slot", slot |-> slot, name |-> <<>>]
ResName(name) == [kind |-> "Name", slot |-> NoSlot, name |-> name]
ResNotFound == [kind |-> "NotFound", slot |-> NoSlot, name |-> <<>>]

\* ---------------------------------------------------------------------- IR

\* IRArg: t is the variant, v its payload (w the second payload of
\* TNewLiteral)
Arg(t, v) == [t |-> t, v |-> v, w |-> 0]
ArgNone == Arg("None", 0)
ArgSlot(s) == Arg("Slot", s)
ArgUpvalue(u) == Arg("Upvalue", u)
ArgLiteral(l) == Arg("Literal", l)
ArgPrimitive(p) == Arg("Primitive", p)
ArgStr(i) == Arg("Str", i)
ArgJump(label) == Arg("Jump", label)
ArgJumpLiteral(o) == Arg("JumpLiteral", o)
ArgTNewLiteral(hash, tab) == [t |-> "TNewLiteral", v |-> hash, w |-> tab]

\* Primitive
PrimNil == 0
PrimFalse == 1
PrimTrue == 2

\* IRInstAD::new and IRInstABC::new: the label is 0
IRInstAD(op_code, a, d) ==
    [shape |-> "AD", label |-> 0, op_code |-> op_code, a |-> a, b |-> ArgNone, c |-> ArgNone, d |-> d]

IRInstABC(op_code, a, b, c) ==
    [shape |-> "ABC", label |-> 0, op_code |-> op_code, a |-> a, b |-> b, c |-> c, d |-> ArgNone]

\* the result of a narrowing that panics
NarrowPanic == -1

\* IRArg::as_8
as_8(arg) ==
    CASE arg.t = "None" -> 0
      [] arg.t \in {"Slot", "Upvalue", "Primitive"} -> arg.v
      [] arg.t \in {"Literal", "Num", "Str", "Tab", "Func", "CData"} ->
            IF arg.v > 255 THEN NarrowPanic ELSE arg.v
      [] OTHER -> NarrowPanic

\* IRArg::as_16
as_16(arg) ==
    CASE arg.t = "None" -> 0
      [] arg.t = "SignedLiteral" -> (arg.v + 65536) % 65536
      [] arg.t = "TNewLiteral" -> ((arg.v * 2048) % 65536) + (arg.w % 2048)
      [] arg.t = "Jump" -> NarrowPanic
      [] OTHER -> arg.v

\* BCInstAD::emit and BCInstABC::emit
BCInstAD(op_code, a, d) == [shape |-> "AD", op_code |-> op_code, a |-> a, b |-> 0, c |-> 0, d |-> d]

BCInstABC(op_code, a, b, c) == [shape |-> "ABC", op_code |-> op_code, a |-> a, b |-> b, c |-> c, d |-> 0]

\* IRInstruction::to_bc_instruction
to_bc_instruction(inst) ==
    IF inst.shape = "ABC"
    THEN BCInstABC(inst.op_code, as_8(inst.a), as_8(inst.b), as_8(inst.c))
    ELSE BCInstAD(inst.op_code, as_8(inst.a), as_16(inst.d))

\* whether lowering the instruction panics
LowerPanics(inst) ==
    IF inst.shape = "ABC"
    THEN NarrowPanic \in {as_8(inst.a), as_8(inst.b), as_8(inst.c)}
    ELSE NarrowPanic \in {as_8(inst.a), as_16(inst.d)}

\* get_label_position with the first instruction for a label that no
\* instruction carries
get_label_position_or_first(ir, label) ==
    LET hits == {i \in 1..Len(ir) : ir[i].label = label}
    IN IF hits = {} THEN 0 ELSE Min(hits) - 1

\* get_label_position: the Vec index of the first instruction that carries
\* the label, NoSlot for Option::None
get_label_position(ir, label) ==
    LET hits == {i \in 1..Len(ir) : ir[i].label = label}
    IN IF hits = {} THEN NoSlot ELSE Min(hits) - 1

\* the offset that process_jumps computes for the jump at Vec index i
JumpOffset(target_pos, i) == (target_pos - target_pos) + JUMP_BIASING

\* the iteration of process_jumps that also takes a resolved displacement
\* for a jump to resolve, and biases it again
ProcessJumpAt_resolved(ir, i) ==
    LET inst == ir[i + 1]
    IN IF inst.shape = "AD" /\ inst.d.t \in {"Jump", "JumpLiteral"}
       THEN LET target_pos == IF inst.d.t = "Jump"
                              THEN get_label_position(ir, inst.d.v)
                              ELSE 0
                offset == IF inst.d.t = "Jump"
                          THEN JumpOffset(target_pos, i)
                          ELSE (inst.d.v + JUMP_BIASING) % 65536
            IN IF target_pos = NoSlot \/ offset < 0 \/ offset > 65535
               THEN [ir |-> ir, panic |-> TRUE]
               ELSE [ir |-> [ir EXCEPT ![i + 1].d = ArgJumpLiteral(offset)], panic |-> FALSE]
       ELSE [ir |-> ir, panic |-> FALSE]

\* one iteration of the loop of process_jumps, on Vec index i
ProcessJumpAt(ir, i) ==
    LET inst == ir[i + 1]
    IN IF inst.shape = "AD" /\ inst.d.t = "Jump"
       THEN LET target_pos == get_label_position(ir, inst.d.v)
                offset == JumpOffset(target_pos, i)
            IN IF target_pos = NoSlot \/ offset < 0 \/ offset > 65535
               THEN [ir |-> ir, panic |-> TRUE]
               ELSE [ir |-> [ir EXCEPT ![i + 1].d = ArgJumpLiteral(offset)], panic |-> FALSE]
       ELSE [ir |-> ir, panic |-> FALSE]

RECURSIVE ProcessJumpsFrom(_, _)
ProcessJumpsFrom(ir, i) ==
    IF i >= Len(ir)
    THEN [ir |-> ir, panic |-> FALSE]
    ELSE LET r == ProcessJumpAt(ir, i)
         IN IF r.panic THEN r ELSE ProcessJumpsFrom(r.ir, i + 1)

\* process_jumps
process_jumps(ir) == ProcessJumpsFrom(ir, 0)

\* process_ir: the resolved IR, the lowered code, and whether it panicked
process_ir(ir) ==
    LET j == process_jumps(ir)
    IN IF j.panic \/ \E k \in 1..Len(j.ir) : LowerPanics(j.ir[k])
       THEN [ir |-> j.ir, code |-> <<>>, panic |-> TRUE]
       ELSE [ir |-> j.ir, code |-> [k \in 1..Len(j.ir) |-> to_bc_instruction(j.ir[k])], panic |-> FALSE]

\* --------------------------------------------------------------- LocalEnv

\* ComplexConstant::String(KStr::new(string))
KStr(string) == [kind |-> "Str", value |-> string]

\* Prototype::new
NewPrototype(arg_count) ==
    [flags |-> 0, arg_count |-> arg_count, frame_size |-> 0, instructions |-> <<>>,
     upval_references |-> <<>>, complex_constants |-> <<>>, numeric_constants |-> <<>>]

\* LocalEnv::new
NewLocalEnv(depth, arg_count) ==
    [depth |-> depth,
     occupied_slot |-> {},
     local_var_stack |-> <<EmptyMap>>,
     local_var_overflow_stack |-> <<{}>>,
     string_constant_cache |-> EmptyMap,
     expr_result_slot |-> NoSlot,
     return_slot |-> NoSlot,
     upvalues |-> EmptyMap,
     frame_size |-> 0,
     label_counter |-> 0,
     has_child |-> FALSE,
     ir |-> <<>>,
     prototype |-> NewPrototype(arg_count)]

\* the root environment after new_tmp calls took the slots below top and
\* free_tmp calls released those of them that are not in occ
LocalEnvWithSlots(occ, top) ==
    [NewLocalEnv(0, 0) EXCEPT !.occupied_slot = occ, !.frame_size = top]

\* the loop of get_new_slot: the first index in 0..255 that is not
\* occupied, NoSlot when there is none
FirstFree(occupied) ==
    IF \A i \in 0..(NumSlots - 1) : i \in occupied
    THEN NoSlot
    ELSE CHOOSE i \in 0..(NumSlots - 1) :
            i \notin occupied /\ \A j \in 0..(i - 1) : j \in occupied

\* get_new_slot without the write to occupied_slot: the first free slot is
\* returned and stays free
get_new_slot_unmarked(env, mode) ==
    LET slot == FirstFree(env.occupied_slot)
    IN IF slot = NoSlot
       THEN [env |-> env, res |-> NoSlot, panic |-> FALSE]
       ELSE [env |-> [env EXCEPT !.frame_size = IF slot >= @ THEN (slot + 1) % 256 ELSE @],
             res |-> slot, panic |-> FALSE]

\* LocalEnv::get_new_slot; slot + 1 is a u8 addition
get_new_slot(env, mode) ==
    LET slot == FirstFree(env.occupied_slot)
        taken == [env EXCEPT !.occupied_slot = @ \cup {slot}]
    IN IF slot = NoSlot
       THEN [env |-> env, res |-> NoSlot, panic |-> FALSE]
       ELSE IF slot >= env.frame_size
            THEN IF slot + 1 > 255
                 THEN IF mode = "debug"
                      THEN [env |-> taken, res |-> slot, panic |-> TRUE]
                      ELSE [env |-> [taken EXCEPT !.frame_size = (slot + 1) % 256],
                            res |-> slot, panic |-> FALSE]
                 ELSE [env |-> [taken EXCEPT !.frame_size = slot + 1],
                       res |-> slot, panic |-> FALSE]
            ELSE [env |-> taken, res |-> slot, panic |-> FALSE]

\* LocalEnv::free_slot
free_slot(env, slot) == [env EXCEPT !.occupied_slot = @ \ {slot}]

\* LocalEnv::add_local
add_local(env, name, mode) ==
    LET g == get_new_slot(env, mode)
        slot == IF g.res = NoSlot THEN 255 ELSE g.res
    IN IF g.panic
       THEN [env |-> g.env, res |-> ResNotFound, panic |-> TRUE]
       ELSE IF slot >= SpillThreshold
            THEN LET depth_name == name_with_depth(name, env.depth)
                     freed == free_slot(g.env, slot)
                 IN [env |-> [freed EXCEPT !.local_var_overflow_stack[1] = @ \cup {depth_name}],
                     res |-> ResName(depth_name), panic |-> FALSE]
            ELSE [env |-> [g.env EXCEPT !.local_var_stack[1] = MapPut(@, name, slot)],
                  res |-> ResSlot(slot), panic |-> FALSE]

\* LocalEnv::get_local: the loop from Vec index i on
RECURSIVE GetLocalFrom(_, _, _)
GetLocalFrom(env, name, i) ==
    IF i > Len(env.local_var_stack)
    THEN ResNotFound
    ELSE IF name \in DOMAIN env.local_var_stack[i]
         THEN ResSlot(env.local_var_stack[i][name])
         ELSE IF name \in env.local_var_overflow_stack[i]
              THEN ResName(name_with_depth(name, env.depth))
              ELSE GetLocalFrom(env, name, i + 1)

local_get_local(env, name) == GetLocalFrom(env, name, 1)

\* LocalEnv::open_pseudo_env
local_open_pseudo_env(env) ==
    [env EXCEPT !.local_var_stack = Append(@, EmptyMap),
                !.local_var_overflow_stack = Append(@, {})]

\* LocalEnv::close_pseudo_env: pops the last map and frees its slots
local_close_pseudo_env(env) ==
    LET n == Len(env.local_var_stack)
        local_var == env.local_var_stack[n]
        m == Len(env.local_var_overflow_stack)
    IN [env EXCEPT !.local_var_stack = SubSeq(@, 1, n - 1),
                   !.local_var_overflow_stack = SubSeq(@, 1, m - 1),
                   !.occupied_slot = @ \ {local_var[k] : k \in DOMAIN local_var}]

\* LocalEnv::add_upvalue; the index is cast to u8
add_upvalue(env, reference, name) ==
    LET refs == Append(env.prototype.upval_references, reference)
        index == (Len(refs) - 1) % 256
    IN [env |-> [env EXCEPT !.prototype.upval_references = refs,
                            !.upvalues = MapPut(@, name, index)],
        res |-> index]

\* LocalEnv::get_upvalue
local_get_upvalue(env, name) ==
    IF name \in DOMAIN env.upvalues THEN ResSlot(env.upvalues[name]) ELSE ResNotFound

\* LocalEnv::new_tmp
new_tmp(env, mode) ==
    LET g == get_new_slot(env, mode)
    IN [g EXCEPT !.panic = g.panic \/ g.res = NoSlot]

\* whether the n slots that end at index i are all free
FreeRunEndsAt(occupied, n, i) == i - (n - 1) >= 0 /\ \A k \in (i - (n - 1))..i : k \notin occupied

\* the scan of LocalEnv::new_tmps: start restarts at every occupied slot
\* and the loop returns at the first index i with i - start = n - 1, which
\* is the first index that ends n free slots in a row. The pair
\* <<start, i>> at which the loop returns, <<NoSlot, NoSlot>> when it runs
\* to the end of the bitmap.
NewTmpsScan(occupied, n) ==
    IF \A i \in 0..(NumSlots - 1) : ~FreeRunEndsAt(occupied, n, i)
    THEN <<NoSlot, NoSlot>>
    ELSE LET i == CHOOSE i \in 0..(NumSlots - 1) :
                     /\ FreeRunEndsAt(occupied, n, i)
                     /\ \A j \in 0..(i - 1) : ~FreeRunEndsAt(occupied, n, j)
         IN <<i - (n - 1), i>>

\* the range start..end collected into a Vec
RangeVec(start, end) == [k \in 1..(IF end > start THEN end - start ELSE 0) |-> start + k - 1]

\* LocalEnv::new_tmps, n >= 1; (i as u8) + 1 is a u8 addition. The bitmap
\* is left as it was.
new_tmps(env, n, mode) ==
    LET found == NewTmpsScan(env.occupied_slot, n)
        start == found[1]
        i == found[2]
    IN IF start = NoSlot
       THEN [env |-> env, res |-> <<>>, panic |-> TRUE]
       ELSE IF i + 1 > 255
            THEN IF mode = "debug"
                 THEN [env |-> env, res |-> <<>>, panic |-> TRUE]
                 ELSE [env |-> env, res |-> RangeVec(start, (i + 1) % 256), panic |-> FALSE]
            ELSE [env |-> env, res |-> RangeVec(start, i + 1), panic |-> FALSE]

\* LocalEnv::free_tmp
free_tmp(env, slot) == free_slot(env, slot)

\* LocalEnv::new_label
new_label(env) ==
    [env |-> [env EXCEPT !.label_counter = @ + 1], res |-> env.label_counter + 1]

\* LocalEnv::add_instruction
local_add_instruction(env, inst) == [env EXCEPT !.ir = Append(@, inst)]

\* add_string_constant without the cache lookup: every call adds an entry
add_string_constant_uncached(env, string) ==
    LET pool == <<KStr(string)>> \o env.prototype.complex_constants
        res == Len(pool) - 1
    IN [env |-> [env EXCEPT !.prototype.complex_constants = pool,
                            !.string_constant_cache = MapPut(@, string, res)],
        res |-> res]

\* LocalEnv::add_string_constant: the constant is inserted at the front of
\* the pool and the index returned is that of the last entry
add_string_constant(env, string) ==
    IF string \in DOMAIN env.string_constant_cache
    THEN [env |-> env, res |-> env.string_constant_cache[string]]
    ELSE LET pool == <<KStr(string)>> \o env.prototype.complex_constants
             res == Len(pool) - 1
         IN [env |-> [env EXCEPT !.prototype.complex_constants = pool,
                                 !.string_constant_cache = MapPut(@, string, res)],
             res |-> res]

\* the return instruction that LocalEnv::finalize pushes
ReturnInst(env) ==
    IF env.return_slot = NoSlot
    THEN IRInstAD(RET0, ArgSlot(0), ArgLiteral(1))
    ELSE IRInstAD(RET1, ArgSlot(env.return_slot), ArgLiteral(2))

\* flags |= FLAG_P_HAS_CHILD
SetHasChild(flags) == IF (flags % 2) = 1 THEN flags ELSE flags + FLAG_P_HAS_CHILD

\* LocalEnv::finalize
finalize(env) ==
    LET ir == Append(env.ir, ReturnInst(env))
        p == process_ir(ir)
    IN [env |-> [env EXCEPT !.ir = p.ir,
                            !.prototype.frame_size = env.frame_size,
                            !.prototype.instructions = @ \o p.code,
                            !.prototype.flags = IF env.has_child THEN SetHasChild(@) ELSE @],
        panic |-> p.panic]

\* ---------------------------------------------------------- CompilationEnv

\* A CompilationEnv value: the prototypes of its Program (bytecode), its
\* global_var set and its local_env_stack.
\* CompilationEnv::new, add_builtins included
NewCompilationEnv ==
    [prototypes |-> <<>>, global_var |-> BUILD_IN_FUNC, local_env_stack |-> <<NewLocalEnv(0, 0)>>]

\* the result of an operation: the environment after it, the value it
\* returns and whether it panicked
Done(E, res) == [E |-> E, res |-> res, panic |-> FALSE]
Panicked(E) == [E |-> E, res |-> ResNotFound, panic |-> TRUE]

\* local_env_stack.first() is None
NoFirst(E) == Len(E.local_env_stack) = 0

\* the environment with local_env_stack.first_mut() replaced
WithFirst(E, env) == [E EXCEPT !.local_env_stack[1] = env]

\* CompilationEnv::open_env
open_env(E, arg_count) ==
    IF NoFirst(E)
    THEN Panicked(E)
    ELSE Done([E EXCEPT !.local_env_stack =
                   Append(@, NewLocalEnv(E.local_env_stack[1].depth, arg_count))], NoSlot)

\* close_env with the prototype put in front of the prototypes of the
\* Program
close_env_front(E) ==
    IF Len(E.local_env_stack) = 0
    THEN Panicked(E)
    ELSE LET n == Len(E.local_env_stack)
             f == finalize(E.local_env_stack[n])
             rest == SubSeq(E.local_env_stack, 1, n - 1)
         IN IF f.panic
            THEN Panicked(E)
            ELSE Done([E EXCEPT !.prototypes = <<f.env.prototype>> \o @,
                                !.local_env_stack =
                                    IF Len(rest) > 0
                                    THEN [rest EXCEPT ![1].has_child = TRUE]
                                    ELSE rest], NoSlot)

\* CompilationEnv::close_env
close_env(E) ==
    IF Len(E.local_env_stack) = 0
    THEN Panicked(E)
    ELSE LET n == Len(E.local_env_stack)
             f == finalize(E.local_env_stack[n])
             rest == SubSeq(E.local_env_stack, 1, n - 1)
         IN IF f.panic
            THEN Panicked(E)
            ELSE Done([E EXCEPT !.prototypes = Append(@, f.env.prototype),
                                !.local_env_stack =
                                    IF Len(rest) > 0
                                    THEN [rest EXCEPT ![1].has_child = TRUE]
                                    ELSE rest], NoSlot)

\* CompilationEnv::open_pseudo_env
open_pseudo_env(E) ==
    IF NoFirst(E) THEN Panicked(E)
    ELSE Done(WithFirst(E, local_open_pseudo_env(E.local_env_stack[1])), NoSlot)

\* CompilationEnv::close_pseudo_env
close_pseudo_env(E) ==
    IF NoFirst(E) \/ Len(E.local_env_stack[1].local_var_stack) = 0 THEN Panicked(E)
    ELSE Done(WithFirst(E, local_close_pseudo_env(E.local_env_stack[1])), NoSlot)

\* CompilationEnv::get_global
get_global(E, name) == name \in E.global_var

\* CompilationEnv::add_local
env_add_local(E, name, mode) ==
    IF NoFirst(E) \/ Len(E.local_env_stack[1].local_var_stack) = 0 THEN Panicked(E)
    ELSE LET r == add_local(E.local_env_stack[1], name, mode)
         IN [E |-> WithFirst(E, r.env), res |-> r.res, panic |-> r.panic]

\* CompilationEnv::get_local
get_local(E, name) ==
    IF NoFirst(E) THEN Panicked(E)
    ELSE Done(E, local_get_local(E.local_env_stack[1], name))

\* CompilationEnv::lookup_uv; depth is a Vec index
RECURSIVE lookup_uv(_, _, _)
lookup_uv(E, name, depth) ==
    LET local_env == E.local_env_stack[depth + 1]
        cached == local_get_upvalue(local_env, name)
    IN IF cached.kind = "Slot"
       THEN Done(E, cached)
       ELSE IF depth + 2 > Len(E.local_env_stack)
            THEN Done(E, ResNotFound)
            ELSE LET upper_env == E.local_env_stack[depth + 2]
                     upper_local_res == local_get_local(upper_env, name)
                 IN CASE upper_local_res.kind = "Slot" ->
                           LET a == add_upvalue(local_env, 49152 + upper_local_res.slot, name)
                           IN Done([E EXCEPT !.local_env_stack[depth + 1] = a.env], ResSlot(a.res))
                      [] upper_local_res.kind = "Name" ->
                           Done(E, upper_local_res)
                      [] OTHER ->
                           LET upper_res == lookup_uv(E, name, depth + 1)
                           IN IF upper_res.res.kind = "Slot"
                              THEN LET env2 == upper_res.E.local_env_stack[depth + 1]
                                       a == add_upvalue(env2, upper_res.res.slot, name)
                                   IN Done([upper_res.E EXCEPT !.local_env_stack[depth + 1] = a.env],
                                           ResSlot(a.res))
                              ELSE upper_res

\* CompilationEnv::get_upvalue
get_upvalue(E, name) == IF NoFirst(E) THEN Panicked(E) ELSE lookup_uv(E, name, 0)

\* CompilationEnv::get_expr_slot (on an environment that has a first)
get_expr_slot(E) == E.local_env_stack[1].expr_result_slot

\* CompilationEnv::set_expr_slot
set_expr_slot(E, slot) == [E EXCEPT !.local_env_stack[1].expr_result_slot = slot]

\* CompilationEnv::get_return_slot
get_return_slot(E) == E.local_env_stack[1].return_slot

\* CompilationEnv::set_return_slot
set_return_slot(E, slot) == [E EXCEPT !.local_env_stack[1].return_slot = slot]

\* CompilationEnv::new_tmp
env_new_tmp(E, mode) ==
    IF NoFirst(E) THEN Panicked(E)
    ELSE LET r == new_tmp(E.local_env_stack[1], mode)
         IN [E |-> WithFirst(E, r.env), res |-> r.res, panic |-> r.panic]

\* CompilationEnv::new_tmps
env_new_tmps(E, n, mode) ==
    IF NoFirst(E) THEN [E |-> E, res |-> <<>>, panic |-> TRUE]
    ELSE LET r == new_tmps(E.local_env_stack[1], n, mode)
         IN [E |-> WithFirst(E, r.env), res |-> r.res, panic |-> r.panic]

\* CompilationEnv::free_tmp
env_free_tmp(E, slot) ==
    IF NoFirst(E) THEN Panicked(E)
    ELSE Done(WithFirst(E, free_tmp(E.local_env_stack[1], slot)), NoSlot)

\* CompilationEnv::free_tmps
env_free_tmps(E, slots) ==
    IF NoFirst(E) THEN Panicked(E)
    ELSE Done(WithFirst(E, [E.local_env_stack[1] EXCEPT
                  !.occupied_slot = @ \ {slots[k] : k \in 1..Len(slots)}]), NoSlot)

\* CompilationEnv::new_label
env_new_label(E) ==
    IF NoFirst(E) THEN Panicked(E)
    ELSE LET r == new_label(E.local_env_stack[1])
         IN Done(WithFirst(E, r.env), r.res)

\* CompilationEnv::add_instruction
add_instruction(E, inst) ==
    IF NoFirst(E) THEN Panicked(E)
    ELSE Done(WithFirst(E, local_add_instruction(E.local_env_stack[1], inst)), NoSlot)

\* CompilationEnv::add_string_constant
env_add_string_constant(E, string) ==
    IF NoFirst(E) THEN Panicked(E)
    ELSE LET r == add_string_constant(E.local_env_stack[1], string)
         IN Done(WithFirst(E, r.env), r.res)

\* ------------------------------------------------------ bytecode encoding

\* Header::new
NewHeader ==
    [magic |-> MAGIC, version |-> CUR_VERSION, flags |-> FLAG_H_IS_STRIPPED + FLAG_H_HAS_FFI]

\* Header::encode
header_encode(header) == Append(Append(header.magic, header.version), header.flags)

\* the bytes ULEB128::write_into writes for n
RECURSIVE encode_uleb128(_)
encode_uleb128(n) ==
    IF n < 128 THEN <<n>> ELSE <<128 + (n % 128)>> \o encode_uleb128(n \div 128)

\* the byte sequences of a vector, appended in order
RECURSIVE Flatten(_)
Flatten(vecs) ==
    IF vecs = <<>> THEN <<>>
    ELSE IF Len(vecs) = 1 THEN vecs[1]
    ELSE Flatten(SubSeq(vecs, 1, Len(vecs) \div 2))
             \o Flatten(SubSeq(vecs, Len(vecs) \div 2 + 1, Len(vecs)))

\* BCInstABC::encode and BCInstAD::encode: the 32 bit word of the
\* instruction in the byte order of the machine (to_ne_bytes)
inst_encode(inst, endian) ==
    LET word == IF inst.shape = "ABC"
                THEN <<inst.op_code, inst.a, inst.c, inst.b>>
                ELSE <<inst.op_code, inst.a, inst.d % 256, inst.d \div 256>>
    IN IF endian = "little" THEN word ELSE <<word[4], word[3], word[2], word[1]>>

\* the UTF-8 bytes of the characters the strings of the model hold
CharByte == [ch \in {"a", "b", "h", "i"} |->
                CASE ch = "a" -> 97 [] ch = "b" -> 98 [] ch = "h" -> 104 [] ch = "i" -> 105]

\* ComplexConstant::encode of a string constant
complex_encode(kstr) ==
    encode_uleb128(Len(kstr.value) + BCDUMP_KGC_STR)
        \o [k \in 1..Len(kstr.value) |-> CharByte[kstr.value[k]]]

\* the loop at the end of Prototype::encode with i running upwards from 0:
\* the bytes of the size end up in front of the body in reverse order
RECURSIVE insert_size_ascending(_, _, _)
insert_size_ascending(res, buff, i) ==
    LET at == Len(buff) - i
        inserted == <<buff[at]>> \o res
    IN IF i = 0 THEN inserted ELSE insert_size_ascending(inserted, buff, i - 1)

\* the loop at the end of Prototype::encode: buff[i] is inserted at the
\* front of res, for i from buff_len - 1 down to 0 (buff[i] is buff[i + 1]
\* here)
RECURSIVE insert_size(_, _, _)
insert_size(res, buff, i) ==
    LET inserted == <<buff[i + 1]>> \o res
    IN IF i = 0 THEN inserted ELSE insert_size(inserted, buff, i - 1)

\* Prototype::encode. No code adds a numeric constant: the loop over
\* numeric_constants appends nothing.
prototype_encode(proto, endian) ==
    LET res == <<proto.flags, proto.arg_count, proto.frame_size,
                 Len(proto.upval_references) % 256>>
               \o encode_uleb128(Len(proto.complex_constants))
               \o encode_uleb128(Len(proto.numeric_constants))
               \o encode_uleb128(Len(proto.instructions))
               \o Flatten([k \in 1..Len(proto.instructions) |->
                              inst_encode(proto.instructions[k], endian)])
               \o Flatten([k \in 1..Len(proto.upval_references) |->
                              <<(proto.upval_references[k] \div 256) % 256,
                                proto.upval_references[k] % 256>>])
               \o Flatten([k \in 1..Len(proto.complex_constants) |->
                              complex_encode(proto.complex_constants[k])])
    IN insert_size(res, encode_uleb128(Len(res)), Len(encode_uleb128(Len(res))) - 1)

\* Program::encode with the prototypes written before the header
program_encode_header_last(header, prototypes, endian) ==
    Flatten([k \in 1..Len(prototypes) |-> prototype_encode(prototypes[k], endian)])
        \o header_encode(header) \o <<0>>

\* Program::encode
program_encode(header, prototypes, endian) ==
    header_encode(header)
        \o Flatten([k \in 1..Len(prototypes) |-> prototype_encode(prototypes[k], endian)])
        \o <<0>>

\* CompilationEnv::get_bytecode; the header of the Program is the one
\* Program::new built, no code writes it
get_bytecode(E, endian) == program_encode(NewHeader, E.prototypes, endian)

\* ---------------------------------------------------------------- compiler

\* A node of the LKQL tree: its kind, its text and its children. The
\* child of a fun_call node is its f_arguments node and its text the text
\* of its f_name node.
Node(kind, text, children) == [kind |-> kind, text |-> text, children |-> children]

\* the result of a compile function: the environment after it, Ok (TRUE) or
\* Err (FALSE), and whether it panicked
Compiled(E, ok) == [E |-> E, ok |-> ok, panic |-> FALSE]
CompilePanicked(E) == [E |-> E, ok |-> FALSE, panic |-> TRUE]

\* add_instruction of an AD instruction whose first operand is
\* IRArg::Slot(env.get_expr_slot().unwrap())
EmitToExprSlot(E, op_code, d) ==
    IF get_expr_slot(E) = NoSlot
    THEN CompilePanicked(E)
    ELSE Compiled(add_instruction(E, IRInstAD(op_code, ArgSlot(get_expr_slot(E)), d)).E, TRUE)

\* the arms of load_var_copy that add the name to the constant table and
\* emit GGET
EmitGlobalGet(E, name) ==
    LET k == env_add_string_constant(E, name)
    IN EmitToExprSlot(k.E, GGET, ArgStr(k.res))

\* load_var_copy after get_upvalue returned u
load_var_copy_upvalue(name, u) ==
    CASE u.res.kind = "Slot" -> EmitToExprSlot(u.E, UGET, ArgUpvalue(u.res.slot))
      [] u.res.kind = "Name" -> EmitGlobalGet(u.E, u.res.name)
      [] OTHER ->
           IF get_global(u.E, name) THEN EmitGlobalGet(u.E, name) ELSE Compiled(u.E, FALSE)

\* load_var_copy after get_local returned l
load_var_copy_local(name, E, l) ==
    CASE l.kind = "Slot" -> EmitToExprSlot(E, MOV, ArgSlot(l.slot))
      [] l.kind = "Name" -> EmitGlobalGet(E, l.name)
      [] OTHER -> load_var_copy_upvalue(name, get_upvalue(E, name))

\* load_var_copy; ok is the bool it returns
load_var_copy(name, E) == load_var_copy_local(name, E, get_local(E, name).res)

\* bool_literal::compile_true and compile_false
compile_bool(E, primitive) ==
    IF get_expr_slot(E) # NoSlot
    THEN EmitToExprSlot(E, KPRI, ArgPrimitive(primitive))
    ELSE Compiled(E, TRUE)

\* string_literal::compile; the text of the node includes its quotes
compile_string(node, E) ==
    IF get_expr_slot(E) # NoSlot
    THEN LET real_str == SubSeq(node.text, 2, Len(node.text) - 1)
             k == env_add_string_constant(E, real_str)
         IN EmitToExprSlot(k.E, KSTR, ArgStr(k.res))
    ELSE Compiled(E, TRUE)

RECURSIVE compile_node(_, _, _)
RECURSIVE compile_children(_, _, _, _)

\* fun_call::compile after the argument list was compiled with result
\* args: CALL, the MOV to the expression slot, free_tmps and the reset of
\* the expression slot
fun_call_call(res_slot, slots, args) ==
    IF args.panic \/ ~args.ok
    THEN args
    ELSE LET called == add_instruction(args.E, IRInstABC(CALL, ArgSlot(slots[1]),
                                                         ArgLiteral(1), ArgLiteral(2))).E
             moved == IF res_slot # NoSlot
                      THEN add_instruction(called,
                               IRInstAD(MOV, ArgSlot(res_slot), ArgSlot(slots[1]))).E
                      ELSE called
         IN Compiled(set_expr_slot(env_free_tmps(moved, slots).E, res_slot), TRUE)

\* fun_call::compile after load_var_copy returned loaded, whose bool is
\* dropped: the argument list is compiled to the second temporary
fun_call_arguments(node, res_slot, slots, loaded, mode) ==
    IF loaded.panic
    THEN CompilePanicked(loaded.E)
    ELSE fun_call_call(res_slot, slots,
             compile_node(node.children[1], set_expr_slot(loaded.E, slots[2]), mode))

\* fun_call::compile after new_tmps(2) returned t: the callee is loaded
\* to the first temporary
fun_call_name(node, res_slot, t, mode) ==
    IF t.panic \/ Len(t.res) < 2
    THEN CompilePanicked(t.E)
    ELSE fun_call_arguments(node, res_slot, t.res,
             load_var_copy(node.text, set_expr_slot(t.E, t.res[1])), mode)

\* fun_call::compile
compile_fun_call(node, E, mode) ==
    fun_call_name(node, get_expr_slot(E), env_new_tmps(E, 2, mode), mode)

\* the BIG dispatching function: a kind without an arm panics
compile_node(node, E, mode) ==
    CASE node.kind = "top_level_list" -> compile_children(node.children, 1, E, mode)
      [] node.kind = "fun_call" -> compile_fun_call(node, E, mode)
      [] node.kind = "bool_literal_true" -> compile_bool(E, PrimTrue)
      [] node.kind = "bool_literal_false" -> compile_bool(E, PrimFalse)
      [] node.kind = "integer_literal" -> Compiled(E, TRUE)
      [] node.kind = "string_literal" -> compile_string(node, E)
      [] OTHER -> CompilePanicked(E)

\* the loop of top_level_list::compile after child i was compiled with
\* result c
compile_next_child(children, i, c, mode) ==
    IF c.panic \/ ~c.ok THEN c ELSE compile_children(children, i + 1, c.E, mode)

\* the loop of top_level_list::compile from child i on
compile_children(children, i, E, mode) ==
    IF i > Len(children)
    THEN Compiled(E, TRUE)
    ELSE compile_next_child(children, i, compile_node(children[i], E, mode), mode)

\* compile_lkql_file after close_env returned closed
compile_closed(closed) ==
    IF closed.panic THEN CompilePanicked(closed.E) ELSE Compiled(closed.E, TRUE)

\* compile_lkql_file after compile_node returned c
compile_root(c) == IF c.panic \/ ~c.ok THEN c ELSE compile_closed(close_env(c.E))

\* compile_lkql_file from the root node of the unit on; on Ok the
\* environment holds the prototypes that get_bytecode encodes
compile_lkql_file(root, mode) == compile_root(compile_node(root, NewCompilationEnv, mode))

\* ------------------------------------------------------------------- state

VARIABLES
    bytecode,          \* CompilationEnv.bytecode.prototypes
    global_var,        \* CompilationEnv.global_var
    local_env_stack,   \* CompilationEnv.local_env_stack
    status,            \* "ok", or "panic" once an operation has panicked
    ret,               \* the last operation called, its arguments and the value it returned
    log                \* what the caller did so far (history, read by the properties only)

vars == <<bytecode, global_var, local_env_stack, status, ret, log>>

\* the CompilationEnv value of the current state
Env == [prototypes |-> bytecode, global_var |-> global_var, local_env_stack |-> local_env_stack]

SetEnv(E) ==
    /\ bytecode' = E.prototypes
    /\ global_var' = E.global_var
    /\ local_env_stack' = E.local_env_stack

\* ret: op is the operation, name and n its arguments, res the LocalResult
\* or UpvalueResult it returned, val the number and slots the Vec it
\* returned; for compile_lkql_file, ast is the root node of the file and
\* outcome the Result returned, "Ok" or "Err"
BaseRet(op) ==
    [op |-> op, name |-> <<>>, n |-> 0, res |-> ResNotFound, val |-> NoSlot, slots |-> <<>>,
     ast |-> <<>>, outcome |-> "none", arg |-> ArgNone, bytes |-> <<>>]

\* log.scopes has one entry per function scope the caller has opened and
\* not closed, the innermost last: the instructions the caller added, the
\* names it declared with a slot and the upvalue indices it was given while
\* that scope was its innermost open scope.
\* log.closed has one entry per close_env call: the instructions the
\* caller added in the scope that call closed.
\* log.blocks has one entry per open block of the current function, the
\* innermost last: the slots add_local returned while that block was the
\* innermost open block.
\* log.tmps is the set of slots new_tmp returned that were not given to
\* free_tmp since, log.runs the Vecs new_tmps returned that were not given
\* to free_tmps since, log.decl_run the add_local calls (name and result)
\* since the last call of another operation, log.freed the slots of the block that the last operation, a
\* close block, closed, log.interned the index returned by the first
\* add_string_constant call for each string, log.calls a call counter,
\* log.base the number of slots occupied in the initial state.
\* A scope entry also holds the arg_count its open_env call was given, the
\* slot the caller gave to set_return_slot in it, whether the caller closed
\* a scope directly inside it, and top, one plus the highest slot that
\* add_local, new_tmp and new_tmps returned in it (0 when none).
\* log.finished has one entry per close_env call: the scope entry of the
\* scope that call closed.
\* log.spills holds, for every add_local call that returned a name, the
\* source name, the nesting depth of the caller's innermost open scope and
\* the name returned.
\* log.names has one entry per open block of the root function, the
\* innermost last: the slot add_local returned for each name the caller
\* declared in that block.
NewScope ==
    [emitted |-> <<>>, declared |-> {}, uv_seen |-> EmptyMap,
     arg_count |-> 0, return_slot |-> NoSlot, has_child |-> FALSE, top |-> 0]

InitLog ==
    [scopes |-> <<NewScope>>, closed |-> <<>>, blocks |-> <<{}>>, tmps |-> {}, runs |-> {},
     decl_run |-> {}, freed |-> {}, interned |-> EmptyMap, calls |-> 0, base |-> 0,
     finished |-> <<>>, spills |-> {}, names |-> <<EmptyMap>>]

Last(s) == s[Len(s)]

WithLast(s, x) == [s EXCEPT ![Len(s)] = x]

SeqRange(s) == {s[k] : k \in 1..Len(s)}

\* the slots handed out by add_local, new_tmp and new_tmps and not released
Held ==
    UNION SeqRange(log.blocks) \cup log.tmps \cup UNION {SeqRange(run) : run \in log.runs}

\* top after the caller was handed the slots
TopWith(top, slots) ==
    IF \A s \in slots : s + 1 <= top
    THEN top
    ELSE 1 + CHOOSE s \in slots : \A t \in slots : t <= s

\* the caller's scopes after it was handed the slots in its innermost scope
HandOut(scopes, slots) == WithLast(scopes, [Last(scopes) EXCEPT !.top = TopWith(@, slots)])

\* the operation panicked: the process is gone
Panic(r) ==
    /\ status' = "panic"
    /\ ret' = r
    /\ UNCHANGED <<bytecode, global_var, local_env_stack, log>>

\* the state of a fresh CompilationEnv whose root environment is env
InitWith(env) ==
    /\ bytecode = NewCompilationEnv.prototypes
    /\ global_var = NewCompilationEnv.global_var
    /\ local_env_stack = <<env>>
    /\ status = "ok"
    /\ ret = BaseRet("new")
    /\ log = [InitLog EXCEPT !.base = Cardinality(env.occupied_slot),
                             !.scopes[1].top = env.frame_size]

Init == InitWith(NewCompilationEnv.local_env_stack[1])

\* ----------------------------------------------- actions: function scopes

\* the instructions a translation function may add
InstKpri == IRInstAD(KPRI, ArgSlot(0), ArgPrimitive(PrimTrue))
InstJmp(label) == IRInstAD(JMP, ArgSlot(0), ArgJump(label))

\* the labels a caller may jump to: 0, the label every instruction carries,
\* and the labels new_label has returned
KnownLabels == 0..(IF Len(local_env_stack) > 0 THEN local_env_stack[1].label_counter ELSE 0)

Names == {NameX, NameY}

OpenEnv(arg_count) ==
    /\ status = "ok"
    /\ Len(local_env_stack) + Len(bytecode) < MaxEnvs
    /\ LET r == open_env(Env, arg_count)
           call == [BaseRet("open_env") EXCEPT !.n = arg_count]
       IN IF r.panic
          THEN Panic(call)
          ELSE /\ SetEnv(r.E)
               /\ status' = status
               /\ ret' = call
               /\ log' = [log EXCEPT !.scopes = Append(@, [NewScope EXCEPT !.arg_count = arg_count]),
                                     !.freed = {}, !.decl_run = {}]

CloseEnv ==
    /\ status = "ok"
    /\ Len(local_env_stack) > 0
    /\ LET r == close_env(Env)
           call == BaseRet("close_env")
       IN IF r.panic
          THEN Panic(call)
          ELSE /\ SetEnv(r.E)
               /\ status' = status
               /\ ret' = call
               /\ log' = [log EXCEPT
                      !.scopes = IF Len(@) > 1
                                 THEN [SubSeq(@, 1, Len(@) - 1) EXCEPT ![Len(@) - 1].has_child = TRUE]
                                 ELSE <<>>,
                      !.closed = Append(@, Last(log.scopes).emitted),
                      !.finished = Append(@, Last(log.scopes)),
                      !.freed = {}, !.decl_run = {}]

AddInstruction(inst) ==
    /\ status = "ok"
    /\ Len(local_env_stack) > 0
    /\ Len(local_env_stack[1].ir) < MaxIr
    /\ LET r == add_instruction(Env, inst)
       IN /\ SetEnv(r.E)
          /\ status' = status
          /\ ret' = BaseRet("add_instruction")
          /\ log' = [log EXCEPT !.scopes = WithLast(@, [Last(@) EXCEPT !.emitted = Append(@, inst)]),
                                !.freed = {}, !.decl_run = {}]

NewLabel ==
    /\ status = "ok"
    /\ Len(local_env_stack) > 0
    /\ local_env_stack[1].label_counter < 1
    /\ LET r == env_new_label(Env)
       IN /\ SetEnv(r.E)
          /\ status' = status
          /\ ret' = [BaseRet("new_label") EXCEPT !.val = r.res]
          /\ log' = [log EXCEPT !.freed = {}, !.decl_run = {}]

\* the slots add_local handed out that are in the LocalResult
SlotsOf(res) == IF res.kind = "Slot" THEN {res.slot} ELSE {}

\* an add_local call
AddLocalCall(name) ==
    /\ status = "ok"
    /\ Len(local_env_stack) > 0
    /\ \E mode \in OverflowModes :
         LET r == env_add_local(Env, name, mode)
             call == [BaseRet("add_local") EXCEPT !.name = name, !.res = r.res]
         IN IF r.panic
            THEN Panic(call)
            ELSE /\ SetEnv(r.E)
                 /\ status' = status
                 /\ ret' = call
                 /\ log' = [log EXCEPT
                        !.scopes = HandOut(WithLast(@, [Last(@) EXCEPT
                                       !.declared = @ \cup (IF r.res.kind = "Slot" THEN {name} ELSE {})]),
                                           SlotsOf(r.res)),
                        !.spills = IF r.res.kind = "Name"
                                   THEN @ \cup {[name |-> name, depth |-> Len(log.scopes) - 1,
                                                 synth |-> r.res.name]}
                                   ELSE @,
                        !.blocks = WithLast(@, Last(@) \cup SlotsOf(r.res)),
                        !.names = IF r.res.kind = "Slot"
                                  THEN WithLast(@, MapPut(Last(@), name, r.res.slot))
                                  ELSE @,
                        !.decl_run = @ \cup {[name |-> name, res |-> r.res]},
                        !.freed = {}]

AddLocal(name) ==
    /\ Len(local_env_stack) > 0
    /\ Cardinality(local_env_stack[1].occupied_slot) < MaxLocals
    /\ AddLocalCall(name)

GetLocal(name) ==
    /\ status = "ok"
    /\ Len(local_env_stack) > 0
    /\ LET r == get_local(Env, name)
       IN /\ SetEnv(r.E)
          /\ status' = status
          /\ ret' = [BaseRet("get_local") EXCEPT !.name = name, !.res = r.res]
          /\ log' = [log EXCEPT !.freed = {}, !.decl_run = {}]

\* the number of upvalue references of each local environment on the stack
UpvalueCounts == [k \in 1..Len(local_env_stack) |-> Len(local_env_stack[k].prototype.upval_references)]

GetUpvalue(name) ==
    /\ status = "ok"
    /\ Len(local_env_stack) > 0
    /\ LET r == get_upvalue(Env, name)
           seen == Last(log.scopes).uv_seen
       IN /\ SetEnv(r.E)
          /\ status' = status
          /\ ret' = [BaseRet("get_upvalue") EXCEPT !.name = name, !.res = r.res]
          /\ log' = IF r.res.kind = "Slot" /\ name \notin DOMAIN seen
                    THEN [log EXCEPT !.scopes = WithLast(@, [Last(@) EXCEPT
                                        !.uv_seen = MapPut(@, name, r.res.slot)]),
                                     !.freed = {}, !.decl_run = {}]
                    ELSE [log EXCEPT !.freed = {}]

Next ==
    \/ \E arg_count \in 0..1 : OpenEnv(arg_count)
    \/ CloseEnv
    \/ \E inst \in {InstKpri} \cup {InstJmp(l) : l \in KnownLabels} : AddInstruction(inst)
    \/ NewLabel
    \/ \E name \in Names : AddLocal(name)
    \/ \E name \in Names : GetLocal(name)
    \/ \E name \in Names : GetUpvalue(name)

Spec == Init /\ [][Next]_vars

\* ------------------------------------------ actions: slots of one function

\* The slot specification follows one function: the root environment of a
\* fresh CompilationEnv.
InitSlots == InitWith(LocalEnvWithSlots({}, 0))

\* room for one more slot under the bounds of the slot specification
SlotRoom ==
    /\ Cardinality(Held) < MaxHeld
    /\ Len(local_env_stack) > 0
    /\ Cardinality(local_env_stack[1].occupied_slot) < log.base + MaxHeld

SlotAddLocal(name) ==
    /\ SlotRoom
    /\ AddLocalCall(name)

NewTmp ==
    /\ status = "ok"
    /\ Len(local_env_stack) > 0
    /\ SlotRoom
    /\ \E mode \in OverflowModes :
         LET r == env_new_tmp(Env, mode)
             call == [BaseRet("new_tmp") EXCEPT
                         !.val = r.res, !.slots = IF r.res = NoSlot THEN <<>> ELSE <<r.res>>]
         IN IF r.panic
            THEN Panic(call)
            ELSE /\ SetEnv(r.E)
                 /\ status' = status
                 /\ ret' = call
                 /\ log' = [log EXCEPT !.tmps = @ \cup {r.res}, !.freed = {}, !.decl_run = {},
                                       !.scopes = HandOut(@, {r.res} \ {NoSlot})]

\* a new_tmps call
NewTmpsCall(n) ==
    /\ status = "ok"
    /\ Len(local_env_stack) > 0
    /\ \E mode \in OverflowModes :
         LET r == env_new_tmps(Env, n, mode)
             call == [BaseRet("new_tmps") EXCEPT !.n = n, !.slots = r.res]
         IN IF r.panic
            THEN Panic(call)
            ELSE /\ SetEnv(r.E)
                 /\ status' = status
                 /\ ret' = call
                 /\ log' = [log EXCEPT !.runs = @ \cup {r.res}, !.freed = {}, !.decl_run = {},
                                       !.scopes = HandOut(@, SeqRange(r.res))]

NewTmps(n) ==
    /\ SlotRoom
    /\ Cardinality(log.runs) < MaxRuns
    /\ NewTmpsCall(n)

\* free_tmp, on a slot that new_tmp returned
FreeTmp(slot) ==
    /\ status = "ok"
    /\ Len(local_env_stack) > 0
    /\ LET r == env_free_tmp(Env, slot)
       IN /\ SetEnv(r.E)
          /\ status' = status
          /\ ret' = [BaseRet("free_tmp") EXCEPT !.n = slot]
          /\ log' = [log EXCEPT !.tmps = @ \ {slot}, !.decl_run = {}, !.freed = {}]

\* free_tmps, on a Vec that new_tmps returned
FreeTmps(slots) ==
    /\ status = "ok"
    /\ Len(local_env_stack) > 0
    /\ LET r == env_free_tmps(Env, slots)
       IN /\ SetEnv(r.E)
          /\ status' = status
          /\ ret' = [BaseRet("free_tmps") EXCEPT !.slots = slots]
          /\ log' = [log EXCEPT !.runs = @ \ {slots}, !.decl_run = {}, !.freed = {}]

OpenPseudoEnv ==
    /\ status = "ok"
    /\ Len(local_env_stack) > 0
    /\ Len(local_env_stack[1].local_var_stack) < MaxBlocks
    /\ LET r == open_pseudo_env(Env)
       IN /\ SetEnv(r.E)
          /\ status' = status
          /\ ret' = BaseRet("open_pseudo_env")
          /\ log' = [log EXCEPT !.blocks = Append(@, {}), !.names = Append(@, EmptyMap),
                                !.freed = {}, !.decl_run = {}]

\* close_pseudo_env, matching an earlier open_pseudo_env
ClosePseudoEnv ==
    /\ status = "ok"
    /\ Len(local_env_stack) > 0
    /\ Len(local_env_stack[1].local_var_stack) > 1
    /\ LET r == close_pseudo_env(Env)
       IN /\ SetEnv(r.E)
          /\ status' = status
          /\ ret' = BaseRet("close_pseudo_env")
          /\ log' = [log EXCEPT !.blocks = SubSeq(@, 1, Len(@) - 1),
                                !.names = SubSeq(@, 1, Len(@) - 1), !.decl_run = {},
                                !.freed = Last(log.blocks)]

NextSlots ==
    \/ \E name \in Names : SlotAddLocal(name)
    \/ NewTmp
    \/ \E n \in 1..MaxN : NewTmps(n)
    \/ \E slot \in log.tmps : FreeTmp(slot)
    \/ \E slots \in log.runs : FreeTmps(slots)
    \/ OpenPseudoEnv
    \/ ClosePseudoEnv

SpecSlots == InitSlots /\ [][NextSlots]_vars

\* ----------------------------------------- actions: locals of one function

\* The locals specification follows the declarations and blocks of one
\* function, from a fresh root environment or from one in which earlier
\* temporaries hold every slot below the last one under the spill
\* threshold.
LocalBases == {0, SpillThreshold - 1}

InitLocals == \E base \in LocalBases : InitWith(LocalEnvWithSlots(0..(base - 1), base))

NextLocals ==
    \/ \E name \in Names : SlotAddLocal(name)
    \/ OpenPseudoEnv
    \/ ClosePseudoEnv
    \/ \E name \in Names : GetLocal(name)

SpecLocals == InitLocals /\ [][NextLocals]_vars

\* ------------------------------------------- actions: function lifecycle

\* The function specification follows the functions of a file from
\* open_env to close_env: their return slot, their slots and their
\* children.

\* the slots the caller gives to set_return_slot
ReturnSlots == {1}

\* CompilationEnv::set_return_slot(Some(slot))
SetReturnSlot(slot) ==
    /\ status = "ok"
    /\ Len(local_env_stack) > 0
    /\ Last(log.scopes).return_slot # slot
    /\ SetEnv(set_return_slot(Env, slot))
    /\ status' = status
    /\ ret' = [BaseRet("set_return_slot") EXCEPT !.n = slot]
    /\ log' = [log EXCEPT !.scopes = WithLast(@, [Last(@) EXCEPT !.return_slot = slot]),
                          !.freed = {}, !.decl_run = {}]

NextFunctions ==
    \/ \E arg_count \in 0..MaxArgs : OpenEnv(arg_count)
    \/ CloseEnv
    \/ \E slot \in ReturnSlots : SetReturnSlot(slot)
    \/ SlotAddLocal(NameX)
    \/ NewTmp
    \/ \E n \in 1..MaxN : NewTmps(n)

SpecFunctions == Init /\ [][NextFunctions]_vars

\* ----------------------------------------------- actions: spilled locals

\* The spill specification follows the declarations of the functions of a
\* file whose root function took every slot below the spill threshold
\* with new_tmp calls.
InitSpill == InitWith(LocalEnvWithSlots(0..(SpillThreshold - 1), SpillThreshold))

NextSpill ==
    \/ \E arg_count \in 0..MaxArgs : OpenEnv(arg_count)
    \/ CloseEnv
    \/ \E name \in Names : AddLocalCall(name)

SpecSpill == InitSpill /\ [][NextSpill]_vars

\* ------------------------------------------------ actions: slot bitmaps

\* The bitmap specification applies new_tmps to the bitmaps of a function
\* in which new_tmp calls took every slot but the last one and free_tmp
\* calls released some of the MaxTail slots before the last one.
TailSlots == (NumSlots - 1 - MaxTail)..(NumSlots - 2)

InitBitmap ==
    \E free \in SUBSET TailSlots :
        InitWith(LocalEnvWithSlots((0..(NumSlots - 2)) \ free, NumSlots - 1))

NextBitmap == \E n \in 1..MaxN : NewTmpsCall(n)

SpecBitmap == InitBitmap /\ [][NextBitmap]_vars

\* ---------------------------------------------- actions: declaring locals

\* The declare specification calls add_local on the bitmaps that 255
\* new_tmp calls and free_tmp calls on some of DeclareFree leave: frame_size
\* is 255, slot 255 was never handed out, and the first free slot is below
\* the spill threshold, at it, above it, or slot 255 itself.
DeclareFree == {0, SpillThreshold - 1, SpillThreshold, NumSlots - 2}

InitDeclare ==
    \E free \in SUBSET DeclareFree :
        InitWith(LocalEnvWithSlots((0..(NumSlots - 2)) \ free, NumSlots - 1))

NextDeclare == \E name \in Names : AddLocalCall(name)

SpecDeclare == InitDeclare /\ [][NextDeclare]_vars

\* The full frame specification calls add_local on the bitmaps that 256
\* new_tmp calls of a build without overflow checks and free_tmp calls on
\* some of DeclareFree and on slot 255 leave: every slot was handed out and
\* the frame_size of the 256th call wrapped to 0.
InitFullFrame ==
    \E free \in SUBSET (DeclareFree \cup {NumSlots - 1}) :
        InitWith(LocalEnvWithSlots((0..(NumSlots - 1)) \ free, 0))

SpecFullFrame == InitFullFrame /\ [][NextDeclare]_vars

\* -------------------------------------------------- actions: narrowing

\* the operands given to as_8 and as_16: every variant of IRArg, with
\* payloads at both ends of its type and around the widths the narrowing
\* keeps (8 bits; 5 bits of hash and 11 bits of tab for TNewLiteral)
NarrowArgs ==
    {ArgNone, ArgJump(0)}
    \cup {Arg(t, v) : t \in {"Slot", "Upvalue"}, v \in {0, 1, 255}}
    \cup {ArgPrimitive(v) : v \in {PrimNil, PrimFalse, PrimTrue}}
    \cup {Arg(t, v) : t \in {"Literal", "Num", "Str", "Tab", "Func", "CData", "JumpLiteral"},
                      v \in {0, 1, 255, 256, 65535}}
    \cup {Arg("SignedLiteral", v) : v \in {-32768, -1, 0, 1, 32767}}
    \cup {ArgTNewLiteral(hash, tab) : hash \in {0, 1, 31, 32, 255},
                                      tab \in {0, 1, 2047, 2048, 65535}}

\* one call of as_8 or as_16 on arg; a panic ends the program
Narrow(op, arg, val) ==
    LET call == [BaseRet(op) EXCEPT !.arg = arg, !.val = val]
    IN /\ status = "ok"
       /\ IF val = NarrowPanic
          THEN Panic(call)
          ELSE /\ ret' = call
               /\ UNCHANGED <<bytecode, global_var, local_env_stack, status, log>>

NextNarrow ==
    \E arg \in NarrowArgs :
        \/ Narrow("as_8", arg, as_8(arg))
        \/ Narrow("as_16", arg, as_16(arg))

SpecNarrow == Init /\ [][NextNarrow]_vars

\* ------------------------------------------------------ actions: compiler

Quote == "\""

\* the nodes of a file: literals, calls of the built-in print and of foo,
\* which nothing declares, and a declaration, a kind compile_node has no
\* arm for. The arguments of a call are an argument list node.
ArgListNode == Node("arg_list", <<>>, <<>>)

TopLevelNodes ==
    {Node("bool_literal_true", <<>>, <<>>),
     Node("bool_literal_false", <<>>, <<>>),
     Node("integer_literal", <<"1">>, <<>>),
     Node("string_literal", <<Quote, "h", "i", Quote>>, <<>>),
     Node("string_literal", <<Quote, Quote>>, <<>>),
     Node("fun_call", NamePrint, <<ArgListNode>>),
     Node("fun_call", NameFoo, <<ArgListNode>>),
     Node("val_decl", <<>>, <<>>)}

\* the root nodes: top level lists of up to MaxChildren nodes
Roots ==
    {Node("top_level_list", <<>>, children) :
        children \in UNION {[1..n -> TopLevelNodes] : n \in 0..MaxChildren}}

\* the state after compile_lkql_file returned c for the file root
CompileReturns(root, c) ==
    IF c.panic
    THEN Panic([BaseRet("compile_lkql_file") EXCEPT !.ast = root])
    ELSE /\ IF c.ok THEN SetEnv(c.E)
                    ELSE UNCHANGED <<bytecode, global_var, local_env_stack>>
         /\ status' = status
         /\ ret' = [BaseRet("compile_lkql_file") EXCEPT
                       !.ast = root, !.outcome = IF c.ok THEN "Ok" ELSE "Err"]
         /\ log' = log

\* compile_lkql_file on a file whose tree is root: a new CompilationEnv,
\* compile_node, close_env, get_bytecode
CompileLkqlFile(root) ==
    /\ status = "ok"
    /\ ret.op = "new"
    /\ \E mode \in OverflowModes : CompileReturns(root, compile_lkql_file(root, mode))

NextCompile == \E root \in Roots : CompileLkqlFile(root)

SpecCompile == Init /\ [][NextCompile]_vars

\* ------------------------------------------- actions: string constants

\* the strings the caller interns
InternStrings == {<<"a">>, <<"b">>, <<"h", "i">>, <<>>}

\* CompilationEnv::add_string_constant; ret.n is the length of the constant
\* pool before the call
InternString(string) ==
    /\ status = "ok"
    /\ Len(local_env_stack) > 0
    /\ log.calls < MaxIntern
    /\ LET r == env_add_string_constant(Env, string)
       IN /\ SetEnv(r.E)
          /\ status' = status
          /\ ret' = [BaseRet("add_string_constant") EXCEPT
                        !.name = string, !.val = r.res,
                        !.n = Len(local_env_stack[1].prototype.complex_constants)]
          /\ log' = [log EXCEPT
                        !.calls = @ + 1,
                        !.interned = IF string \in DOMAIN @ THEN @ ELSE MapPut(@, string, r.res),
                        !.freed = {}, !.decl_run = {}]

NextIntern == \E string \in InternStrings : InternString(string)

SpecIntern == Init /\ [][NextIntern]_vars

\* -------------------------------------------------- actions: encoding

\* CompilationEnv::get_bytecode, on a little-endian or a big-endian machine
GetBytecode ==
    /\ status = "ok"
    /\ \E endian \in {"little", "big"} :
         ret' = [BaseRet("get_bytecode") EXCEPT !.bytes = get_bytecode(Env, endian)]
    /\ UNCHANGED <<bytecode, global_var, local_env_stack, status, log>>

\* The encoding specification builds Programs with open_env, close_env,
\* add_instruction and add_string_constant and encodes them.
NextEncode ==
    \/ \E arg_count \in 0..MaxArgs : OpenEnv(arg_count)
    \/ CloseEnv
    \/ AddInstruction(InstKpri)
    \/ \E string \in InternStrings : InternString(string)
    \/ GetBytecode

SpecEncode == Init /\ [][NextEncode]_vars

\* ------------------------------------------------ actions: jump resolution

\* the instructions of the lists given to process_jumps: every instruction
\* carries the label 0 (IRInstAD::new, IRInstABC::new); the jumps name the
\* label 0 or the label 1, which no instruction carries, or are resolved
JumpInsts ==
    {InstKpri,
     IRInstABC(CALL, ArgSlot(0), ArgLiteral(1), ArgLiteral(2)),
     IRInstAD(JMP, ArgSlot(0), ArgJumpLiteral(JUMP_BIASING + 1))}
    \cup {IRInstAD(JMP, ArgSlot(a), ArgJump(label)) : a \in 0..1, label \in 0..1}

InitJumps ==
    \E ir \in UNION {[1..n -> JumpInsts] : n \in 0..MaxJumpIr} :
        InitWith([NewLocalEnv(0, 0) EXCEPT !.ir = ir])

\* process_jumps on the instruction list, which holds its result
ProcessJumps ==
    /\ status = "ok"
    /\ LET r == process_jumps(local_env_stack[1].ir)
           call == BaseRet("process_jumps")
       IN IF r.panic
          THEN Panic(call)
          ELSE /\ local_env_stack' = [local_env_stack EXCEPT ![1].ir = r.ir]
               /\ ret' = call
               /\ UNCHANGED <<bytecode, global_var, status, log>>

SpecJumps == InitJumps /\ [][ProcessJumps]_vars

\* ------------------------------------------- actions: encoding a prototype

\* The prototypes given to Prototype::encode (Prototype and its fields are
\* public): one, two or MaxCode instructions, the last one a RET0; none,
\* one, two or MaxUpvalues upvalue references; none, one or two string
\* constants.
Prototypes ==
    {[NewPrototype(arg_count) EXCEPT
         !.flags = flags,
         !.frame_size = frame_size,
         !.instructions = [k \in 1..code |->
                              IF k = code THEN BCInstAD(RET0, 0, 1)
                                          ELSE BCInstAD(KPRI, k - 1, PrimTrue)],
         !.upval_references = [k \in 1..upvalues |-> IF k = 1 THEN 49152 ELSE k - 2],
         !.complex_constants = constants] :
        arg_count \in 0..MaxArgs,
        flags \in {0, FLAG_P_HAS_CHILD},
        frame_size \in {0, NumSlots - 1},
        code \in {1, 2, MaxCode},
        upvalues \in {0, 1, 2, MaxUpvalues},
        constants \in {<<>>, <<KStr(<<"h", "i">>)>>, <<KStr(<<"a">>), KStr(<<>>)>>}}

\* a Program that holds one of the prototypes, all functions closed
InitPrototypes ==
    /\ bytecode \in {<<proto>> : proto \in Prototypes}
    /\ global_var = NewCompilationEnv.global_var
    /\ local_env_stack = <<>>
    /\ status = "ok"
    /\ ret = BaseRet("new")
    /\ log = InitLog

\* Prototype::encode on the prototype of the Program
EncodePrototype ==
    /\ status = "ok"
    /\ \E endian \in {"little", "big"} :
         ret' = [BaseRet("prototype_encode") EXCEPT
                    !.bytes = prototype_encode(bytecode[1], endian)]
    /\ UNCHANGED <<bytecode, global_var, local_env_stack, status, log>>

SpecPrototype == InitPrototypes /\ [][EncodePrototype]_vars

\* ------------------------------------------------ actions: the Program

\* The program specification moves a prototype into the Program and then
\* calls every operation of the CompilationEnv that the compiler uses; it
\* asks for a slot while it holds none and interns one string.
AfterClose == Len(bytecode) >= 1

NextProgram ==
    \/ \E arg_count \in 0..MaxArgs : OpenEnv(arg_count)
    \/ CloseEnv
    \/ AfterClose /\ OpenPseudoEnv
    \/ AfterClose /\ ClosePseudoEnv
    \/ AfterClose /\ Held = {} /\ SlotAddLocal(NameX)
    \/ AfterClose /\ GetLocal(NameX)
    \/ AfterClose /\ GetUpvalue(NameX)
    \/ AfterClose /\ Held = {} /\ NewTmp
    \/ AfterClose /\ \E slot \in log.tmps : FreeTmp(slot)
    \/ AfterClose /\ AddInstruction(InstKpri)
    \/ AfterClose /\ log.calls = 0 /\ InternString(<<"h", "i">>)
    \/ AfterClose /\ GetBytecode

SpecProgram == Init /\ [][NextProgram]_vars

\* ------------------------------------------------- claims: function scopes

\* C1: every prototype that a close_env call moved into the Program holds
\* the instructions that were added between the matching open_env and that
\* close_env, in order, followed by the return instruction, and no
\* instruction of another function scope.
C1_EmittedInClosedPrototype ==
    \A i \in 1..Len(bytecode) :
        LET emitted == log.closed[i]
            code == bytecode[i].instructions
        IN /\ Len(code) = Len(emitted) + 1
           /\ \A k \in 1..Len(emitted) : code[k].op_code = emitted[k].op_code

\* the function scopes that enclose the innermost open one and declared
\* the name as a slot local
DeclaringScopes(name, below) == {j \in 1..(below - 1) : name \in log.scopes[j].declared}

\* C2: get_local, called inside a function scope for a name that was
\* declared in an enclosing function scope and not in the current one,
\* returns NotFound.
C2_GetLocalCurrentFunctionOnly ==
    (/\ status = "ok"
     /\ ret.op = "get_local"
     /\ Len(log.scopes) >= 2
     /\ ret.name \notin Last(log.scopes).declared
     /\ DeclaringScopes(ret.name, Len(log.scopes)) # {})
    => ret.res.kind = "NotFound"

\* C3: get_upvalue, called from a doubly nested function scope for a name
\* that is a slot local of an enclosing function and of neither of the two
\* inner functions, returns an upvalue index; after it every function
\* scope between the declaring one and the innermost one has an upvalue
\* entry for the name; and a second lookup returns the index of the first
\* and adds no upvalue reference anywhere.
C3_UpvalueFromDoublyNested ==
    [][LET n == Len(log.scopes)
           name == ret'.name
           seen == Last(log.scopes).uv_seen
       IN (/\ status' = "ok"
           /\ ret'.op = "get_upvalue"
           /\ n >= 3
           /\ name \notin log.scopes[n].declared
           /\ name \notin log.scopes[n - 1].declared
           /\ DeclaringScopes(name, n - 1) # {})
          => /\ ret'.res.kind = "Slot"
             /\ \A k \in 1..n :
                   (\A j \in DeclaringScopes(name, n - 1) : k > j)
                   => name \in DOMAIN local_env_stack'[k].upvalues
             /\ name \in DOMAIN seen
                   => (ret'.res.slot = seen[name] /\ UpvalueCounts' = UpvalueCounts)]_vars

\* the upvalue reference that the get_upvalue call of this step registered
\* in the innermost function: the entry of upval_references at the index
\* the call returned, NoSlot when there is none
RegisteredReference ==
    LET refs == Last(local_env_stack').prototype.upval_references
    IN IF ret'.res.kind = "Slot" /\ ret'.res.slot + 1 \in 1..Len(refs)
       THEN refs[ret'.res.slot + 1]
       ELSE NoSlot

\* C26: get_upvalue for a name that the innermost function neither
\* declared nor looked up before registers in it a reference with the tag
\* bits set (0xC000 + N) when the immediately enclosing function declared
\* the name with a slot, and the reference M, tag bits clear, M the
\* upvalue index of the name in the immediately enclosing function, when
\* only a function further out declared it.
C26_UpvalueReference ==
    [][LET n == Len(log.scopes)
           name == ret'.name
       IN (/\ status' = "ok"
           /\ ret'.op = "get_upvalue"
           /\ n >= 2
           /\ name \notin log.scopes[n].declared
           /\ name \notin DOMAIN log.scopes[n].uv_seen
           /\ DeclaringScopes(name, n) # {})
          => IF name \in log.scopes[n - 1].declared
             THEN RegisteredReference \in 49152..(49152 + NumSlots - 1)
             ELSE /\ name \in DOMAIN local_env_stack'[n - 1].upvalues
                  /\ RegisteredReference = local_env_stack'[n - 1].upvalues[name]]_vars

\* C10: in the prototype that close_env lowers, every instruction whose
\* wide operand referenced a label holds the displacement
\* (target_index - current_index) + JUMP_BIASING, target_index being the
\* position of the instruction that carries the label and current_index
\* the position of the jump.
C10_JumpDisplacement ==
    [][(status' = "ok" /\ ret'.op = "close_env")
       => LET ir == Last(local_env_stack).ir
              code == Last(bytecode').instructions
          IN \A k \in 1..Len(ir) :
               (ir[k].shape = "AD" /\ ir[k].d.t = "Jump")
               => code[k].d = (get_label_position(ir, ir[k].d.v) - (k - 1)) + JUMP_BIASING]_vars

\* -------------------------------------------- claims: function lifecycle

\* the slots that the call described by r handed out
HandedOut(r) == IF r.op = "add_local" THEN SlotsOf(r.res) ELSE SeqRange(r.slots)

\* the return instruction of a function whose return slot is slot
ExpectedReturn(slot) ==
    IF slot = NoSlot THEN BCInstAD(RET0, 0, 1) ELSE BCInstAD(RET1, slot, 2)

\* C11: the last instruction of every prototype that close_env moved into
\* the Program is RET0 when set_return_slot was not called in that
\* function and RET1 on the slot given to set_return_slot in that function
\* when it was; no instruction before it is a return instruction.
C11_ReturnInstruction ==
    \A i \in 1..Len(bytecode) :
        LET code == bytecode[i].instructions
        IN /\ Len(code) >= 1
           /\ Last(code) = ExpectedReturn(log.finished[i].return_slot)
           /\ \A k \in 1..(Len(code) - 1) : code[k].op_code \notin {RET0, RET1}

\* C12: the frame size of every prototype that close_env moved into the
\* Program is one plus the highest slot that add_local, new_tmp and
\* new_tmps returned in that function, and 0 when they returned none.
C12_FrameSize ==
    \A i \in 1..Len(bytecode) : bytecode[i].frame_size = log.finished[i].top

\* C13: a prototype that close_env moved into the Program carries
\* FLAG_P_HAS_CHILD exactly when a scope opened directly inside its
\* function was closed, at every nesting depth.
C13_HasChildFlag ==
    \A i \in 1..Len(bytecode) :
        ((bytecode[i].flags % 2) = FLAG_P_HAS_CHILD) <=> log.finished[i].has_child

\* C14: in a function opened by open_env(arg_count), the first call of
\* add_local, new_tmp or new_tmps that returns slots returns only slots
\* at or above arg_count.
C14_ArgumentSlotsReserved ==
    [][(/\ status' = "ok"
        /\ ret'.op \in {"add_local", "new_tmp", "new_tmps"}
        /\ Len(log.scopes) >= 2
        /\ Last(log.scopes).top = 0)
       => \A s \in HandedOut(ret') : s >= Last(log.scopes).arg_count]_vars

\* C15: two add_local calls for the same source name that return a name,
\* made in functions at different nesting depths, return different names.
C15_SpilledNamesByDepth ==
    \A a, b \in log.spills :
        (a.name = b.name /\ a.depth # b.depth) => a.synth # b.synth

\* C16: every add_local call returns, and returns a slot below the spill
\* threshold or a name, whatever the bitmap of the function is.
C16_AddLocalNeverAborts ==
    [][ret'.op = "add_local" =>
         /\ status' = "ok"
         /\ \/ ret'.res.kind = "Slot" /\ ret'.res.slot < SpillThreshold
            \/ ret'.res.kind = "Name"]_vars

\* C29: an add_local call that returns a name leaves every one of the 256
\* slots of the function occupied or free as it was before the call.
C29_SpillKeepsBitmap ==
    [][(ret'.op = "add_local" /\ status' = "ok" /\ ret'.res.kind = "Name") =>
         \A i \in 1..Len(local_env_stack) :
             local_env_stack'[i].occupied_slot = local_env_stack[i].occupied_slot]_vars

\* C17: a narrowing that returns keeps the payload of its operand: no
\* other operand of the same variant narrows to the same value.
C17_NarrowingKeepsPayload ==
    /\ (ret.op = "as_8" /\ status = "ok") =>
          \A other \in NarrowArgs :
              (other.t = ret.arg.t /\ as_8(other) = ret.val) => other = ret.arg
    /\ (ret.op = "as_16" /\ status = "ok") =>
          \A other \in NarrowArgs :
              (other.t = ret.arg.t /\ as_16(other) = ret.val) => other = ret.arg

\* C18: the first five bytes of every encoding get_bytecode returns are the
\* three magic bytes, the version byte and the flags byte of the header,
\* whatever prototypes the Program holds.
C18_HeaderFirst ==
    ret.op = "get_bytecode" =>
        /\ Len(ret.bytes) >= 5
        /\ SubSeq(ret.bytes, 1, 3) = MAGIC
        /\ ret.bytes[4] = CUR_VERSION
        /\ ret.bytes[5] = FLAG_H_IS_STRIPPED + FLAG_H_HAS_FFI

\* a Program with two prototypes, one of them with a string constant, was
\* encoded
C18_Witness ==
    /\ ret.op = "get_bytecode"
    /\ Len(bytecode) >= 2
    /\ \E i \in 1..Len(bytecode) : Len(bytecode[i].complex_constants) > 0

\* ----------------------------------------------- claims: string constants

\* the constant pool of the function that receives the caller's constants
Pool == local_env_stack[1].prototype.complex_constants

\* C4: add_string_constant returns for a string the index it returned the
\* first time the string was interned in the function; the first call for
\* a string adds exactly one entry to the function's constant pool and a
\* later call for it adds none.
C4_InternOnce ==
    [][(status' = "ok" /\ ret'.op = "add_string_constant")
       => IF ret'.name \in DOMAIN log.interned
          THEN ret'.val = log.interned[ret'.name] /\ Len(Pool') = Len(Pool)
          ELSE Len(Pool') = Len(Pool) + 1]_vars

\* C4 witness: a string was interned again after another string had been
\* interned, and the pool holds both.
C4_Witness ==
    /\ status = "ok"
    /\ ret.op = "add_string_constant"
    /\ ret.n = Len(Pool)
    /\ Len(Pool) >= 2
    /\ ret.val = log.interned[ret.name]
    /\ log.calls >= 3

\* C25: for every string interned in the function, the entry of the
\* constant pool at the index its first add_string_constant call returned
\* is that string, after every later add_string_constant call too.
C25_IndexDesignatesString ==
    \A string \in DOMAIN log.interned :
        /\ log.interned[string] + 1 \in 1..Len(Pool)
        /\ Pool[log.interned[string] + 1] = KStr(string)

\* --------------------------------------------------------- claims: slots

\* C5: in a sequence of add_local calls in one function, a call that
\* returns a slot returns one that no earlier call of the sequence
\* returned, whatever the names declared.
C5_DistinctLocalSlots ==
    [][(status' = "ok" /\ ret'.op = "add_local" /\ ret'.res.kind = "Slot")
       => \A d \in log.decl_run : d.res.kind = "Slot" => d.res.slot # ret'.res.slot]_vars

\* C5 witness: a sequence of add_local calls declared one name twice and
\* both calls returned a slot.
C5_Witness ==
    /\ status = "ok"
    /\ ret.op = "add_local"
    /\ \E d1, d2 \in log.decl_run :
         /\ d1.name = d2.name
         /\ d1.res.kind = "Slot"
         /\ d2.res.kind = "Slot"
         /\ d1.res.slot # d2.res.slot

\* C6: close_pseudo_env leaves free every slot that add_local returned
\* between the matching open_pseudo_env and it, and an add_local that
\* follows it returns a slot that was in use before, not a never-used one.
C6_CloseBlockFreesSlots ==
    [][/\ (status' = "ok" /\ ret'.op = "close_pseudo_env")
          => Last(log.blocks) \cap local_env_stack'[1].occupied_slot = {}
       /\ (status' = "ok" /\ ret'.op = "add_local" /\ log.freed # {})
          => (ret'.res.kind = "Slot" /\ ret'.res.slot < local_env_stack[1].frame_size)]_vars

\* the bitmap has n free slots in a row
HasRun(occupied, n) ==
    \E start \in 0..(NumSlots - n) : \A k \in start..(start + n - 1) : k \notin occupied

\* C7: new_tmps(n) either returns n slots, consecutive and all free before
\* the call, or fails, and it fails only when the function has no n free
\* slots in a row.
C7_NewTmpsContiguousOrFails ==
    [][ret'.op = "new_tmps"
       => LET occupied == local_env_stack[1].occupied_slot
              got == ret'.slots
          IN IF status' = "ok"
             THEN /\ Len(got) = ret'.n
                  /\ \A k \in 1..Len(got) : got[k] = got[1] + (k - 1) /\ got[k] \notin occupied
             ELSE ~HasRun(occupied, ret'.n)]_vars

\* C8: add_local, new_tmp and new_tmps hand out no slot that was handed
\* out earlier and not released since by free_tmp, free_tmps or the close
\* of its block.
C8_NoSlotHandedOutTwice ==
    [][(status' = "ok" /\ ret'.op \in {"add_local", "new_tmp", "new_tmps"})
       => HandedOut(ret') \cap Held = {}]_vars

\* ------------------------------------------------------- claims: compiler

\* the kinds of the literal nodes
LiteralKinds ==
    {"bool_literal_true", "bool_literal_false", "integer_literal", "string_literal"}

\* the first node of the file that is not a literal is a call of a name
\* that is no global (the file declares no local and no function)
ReadsUnresolvedName(root) ==
    \E i \in 1..Len(root.children) :
        /\ root.children[i].kind = "fun_call"
        /\ root.children[i].text \notin BUILD_IN_FUNC
        /\ \A j \in 1..(i - 1) : root.children[j].kind \in LiteralKinds

\* C9: compiling a file that reads a name that is neither a local, nor an
\* upvalue, nor a global returns Err to the caller of compile_lkql_file and
\* produces no bytecode.
C9_UnresolvedNameFails ==
    (ret.op = "compile_lkql_file" /\ ReadsUnresolvedName(ret.ast))
        => (status = "ok" /\ ret.outcome = "Err" /\ bytecode = <<>>)

\* the file whose only node is node
FileOf(node) == Node("top_level_list", <<>>, <<node>>)

\* the instructions of a prototype before the return instruction that
\* finalize appended
BeforeReturn(proto) == SubSeq(proto.instructions, 1, Len(proto.instructions) - 1)

\* C19: compiling a file whose only node is a true literal gives one
\* prototype whose only instruction before its return is a KPRI of the
\* primitive true, and whose constant pool is empty.
C19_TrueLiteralFile ==
    (ret.op = "compile_lkql_file" /\ ret.ast = FileOf(Node("bool_literal_true", <<>>, <<>>)))
        => /\ status = "ok"
           /\ Len(bytecode) = 1
           /\ Len(BeforeReturn(bytecode[1])) = 1
           /\ BeforeReturn(bytecode[1])[1].op_code = KPRI
           /\ BeforeReturn(bytecode[1])[1].d = PrimTrue
           /\ bytecode[1].complex_constants = <<>>

\* C20: compiling a file whose only node is the string literal "hi" gives
\* one prototype whose constant pool is the one string hi, without quotes,
\* and whose only instruction before its return is a KSTR of index 0, the
\* index of that string.
C20_StringLiteralFile ==
    (ret.op = "compile_lkql_file"
        /\ ret.ast = FileOf(Node("string_literal", <<Quote, "h", "i", Quote>>, <<>>)))
        => /\ status = "ok"
           /\ Len(bytecode) = 1
           /\ bytecode[1].complex_constants = <<KStr(<<"h", "i">>)>>
           /\ Len(BeforeReturn(bytecode[1])) = 1
           /\ BeforeReturn(bytecode[1])[1].op_code = KSTR
           /\ BeforeReturn(bytecode[1])[1].d = 0

\* the file whose nodes are two calls of the built-in print
TwoPrintCalls ==
    Node("top_level_list", <<>>,
         <<Node("fun_call", NamePrint, <<ArgListNode>>),
           Node("fun_call", NamePrint, <<ArgListNode>>)>>)

\* the GGET instructions of a prototype
GlobalGets(proto) == SelectSeq(proto.instructions, LAMBDA inst : inst.op_code = GGET)

\* C21: compiling a file with two calls of the same global function gives
\* one prototype whose constant pool holds that name once, and whose two
\* GGET instructions carry the index of that entry.
C21_GlobalNameInternedOnce ==
    (ret.op = "compile_lkql_file" /\ ret.ast = TwoPrintCalls)
        => /\ status = "ok"
           /\ Len(bytecode) = 1
           /\ bytecode[1].complex_constants = <<KStr(NamePrint)>>
           /\ Len(GlobalGets(bytecode[1])) = 2
           /\ \A k \in 1..2 : GlobalGets(bytecode[1])[k].d = 0

\* ------------------------------------------------------ claims: the Program

\* C22: no operation changes a prototype that is in the Program, nor the
\* order of the prototypes of the Program: the prototypes before a step
\* are the first prototypes after it.
C22_ProgramPrototypesFrozen ==
    [][/\ Len(bytecode') >= Len(bytecode)
       /\ SubSeq(bytecode', 1, Len(bytecode)) = bytecode]_vars

\* two prototypes are in the Program and an instruction was added to an
\* open function after the second was moved in
C22_Witness ==
    /\ Len(bytecode) >= 2
    /\ status = "ok"
    /\ ret.op = "add_instruction"

\* ------------------------------------------------- claims: jump resolution

\* C23: process_jumps, run on the instruction list that a run of
\* process_jumps returned, returns and changes no instruction of it.
C23_JumpResolutionIdempotent ==
    (ret.op = "process_jumps" /\ status = "ok")
        => /\ ~process_jumps(local_env_stack[1].ir).panic
           /\ process_jumps(local_env_stack[1].ir).ir = local_env_stack[1].ir

\* process_jumps has resolved a jump of a list that also held a resolved
\* displacement
C23_Witness ==
    /\ ret.op = "process_jumps"
    /\ status = "ok"
    /\ \E k \in 1..Len(local_env_stack[1].ir) :
          local_env_stack[1].ir[k].d = ArgJumpLiteral(JUMP_BIASING)
    /\ \E k \in 1..Len(local_env_stack[1].ir) :
          local_env_stack[1].ir[k].d = ArgJumpLiteral(JUMP_BIASING + 1)

\* ------------------------------------------------------------ claims: blocks

\* the open blocks in which the caller declared the name with a slot
DeclaringBlocks(name) == {b \in 1..Len(log.names) : name \in DOMAIN log.names[b]}

\* C24: get_local of a name declared with a slot in open blocks of the
\* function returns the slot of the innermost of these blocks: the inner
\* slot while a block that shadows the name is open, the outer slot again
\* after that block was closed.
C24_BlockShadowing ==
    (status = "ok" /\ ret.op = "get_local" /\ DeclaringBlocks(ret.name) # {})
        => LET b == CHOOSE b \in DeclaringBlocks(ret.name) :
                        \A c \in DeclaringBlocks(ret.name) : c <= b
           IN ret.res = ResSlot(log.names[b][ret.name])

\* ------------------------------------------------ claims: prototype encoding

\* the number of bytes of the variable-length integer that bytes starts
\* with: the position of the first byte below 128
UlebLen(bytes) == CHOOSE k \in 1..Len(bytes) : bytes[k] < 128 /\ \A j \in 1..(k - 1) : bytes[j] >= 128

\* the value of the variable-length integer made of the bytes
RECURSIVE UlebValue(_)
UlebValue(bytes) ==
    IF bytes = <<>> THEN 0 ELSE (Head(bytes) % 128) + 128 * UlebValue(Tail(bytes))

\* C27: the encoding of a prototype starts with a variable-length integer
\* whose value is the number of bytes that follow it, with one byte and
\* with several.
C27_SizePrefix ==
    ret.op = "prototype_encode" =>
        /\ \E k \in 1..Len(ret.bytes) : ret.bytes[k] < 128
        /\ UlebValue(SubSeq(ret.bytes, 1, UlebLen(ret.bytes)))
              = Len(ret.bytes) - UlebLen(ret.bytes)

\* a prototype whose body has 128 bytes or more was encoded
C27_Witness ==
    /\ ret.op = "prototype_encode"
    /\ Len(ret.bytes) >= 130
    /\ ret.bytes[1] >= 128

\* the variable-length integer that bytes starts with, and the bytes after it
ReadUleb(bytes) ==
    [value |-> UlebValue(SubSeq(bytes, 1, UlebLen(bytes))),
     rest |-> SubSeq(bytes, UlebLen(bytes) + 1, Len(bytes))]

\* the counts that an encoded prototype states after its size, and the
\* bytes of the entries after them
BodyCounts(bytes) ==
    LET body == ReadUleb(bytes).rest
        complex == ReadUleb(SubSeq(body, 5, Len(body)))
        numeric == ReadUleb(complex.rest)
        instructions == ReadUleb(numeric.rest)
    IN [upvalues |-> body[4],
        complex |-> complex.value,
        numeric |-> numeric.value,
        instructions |-> instructions.value,
        entries |-> instructions.rest]

\* C28: in an encoded prototype the upvalue count byte and the counts of
\* complex constants, numeric constants and instructions are the numbers of
\* entries of the prototype, and the entries follow the counts in the order
\* instruction words of 4 bytes, upvalue references of 2 bytes, complex
\* constants, numeric constants.
C28_CountsAndOrder ==
    ret.op = "prototype_encode" =>
        LET proto == bytecode[1]
            counts == BodyCounts(ret.bytes)
            code_end == 4 * counts.instructions
            upvalues_end == code_end + 2 * counts.upvalues
        IN /\ counts.upvalues = Len(proto.upval_references)
           /\ counts.complex = Len(proto.complex_constants)
           /\ counts.numeric = Len(proto.numeric_constants)
           /\ counts.instructions = Len(proto.instructions)
           /\ \E endian \in {"little", "big"} :
                SubSeq(counts.entries, 1, code_end)
                  = Flatten([k \in 1..Len(proto.instructions) |->
                                inst_encode(proto.instructions[k], endian)])
           /\ SubSeq(counts.entries, code_end + 1, upvalues_end)
                = Flatten([k \in 1..Len(proto.upval_references) |->
                              <<proto.upval_references[k] \div 256,
                                proto.upval_references[k] % 256>>])
           /\ SubSeq(counts.entries, upvalues_end + 1, Len(counts.entries))
                = Flatten([k \in 1..Len(proto.complex_constants) |->
                              complex_encode(proto.complex_constants[k])])

\* ------------------------------------------------ claims: unresolved jumps

\* the instruction list holds a jump to a label that none of its
\* instructions carries
HasUnresolvedJump(ir) ==
    \E i \in 1..Len(ir) :
        /\ ir[i].shape = "AD"
        /\ ir[i].d.t = "Jump"
        /\ \A k \in 1..Len(ir) : ir[k].label # ir[i].d.v

\* every operand of the instructions of the prototype is a narrowed value
LoweredOperands(proto) ==
    \A k \in 1..Len(proto.instructions) :
        NarrowPanic \notin {proto.instructions[k].a, proto.instructions[k].b,
                            proto.instructions[k].c, proto.instructions[k].d}

\* C30: a close_env on a function whose instruction list holds a jump to a
\* label that no instruction of the list carries panics and adds no
\* prototype to the Program, and no prototype of the Program holds an
\* instruction lowered from an unresolved jump.
C30_UnresolvedJumpIsFatal ==
    [][/\ (/\ ret'.op = "close_env"
           /\ Len(local_env_stack) > 0
           /\ HasUnresolvedJump(Last(local_env_stack).ir))
          => (status' = "panic" /\ bytecode' = bytecode)
       /\ \A k \in 1..Len(bytecode') : LoweredOperands(bytecode'[k])]_vars

\* a close_env on a function with an unresolved jump has panicked
C30_Witness ==
    /\ status = "panic"
    /\ ret.op = "close_env"
    /\ Len(local_env_stack) > 0
    /\ HasUnresolvedJump(Last(local_env_stack).ir)

====
